---- MODULE Spec2Model ----
(***************************************************************************)
(* The optimistic chat-send / response-reconciliation protocol of the     *)
(* chat pages (PaperPage, ResearchPage) of DeepResearcher's frontend.      *)
(*                                                                         *)
(* The client state is the React state of one mounted chat page.  Every    *)
(* event handler is one action; the passive effects that React runs after  *)
(* the render caused by a handler are the action RunEffects, which runs    *)
(* before any other client event is handled.  The backend (not part of     *)
(* the frontend sources) is modelled as an append-only message log that    *)
(* receives each chat POST, appends the user entry and then the reply.     *)
(* The page is taken to be unlocked and the user authenticated.            *)
(***************************************************************************)
EXTENDS Integers, Sequences, FiniteSets, TLC

\* ------------------------------------------------------------------ bounds
MaxSends == 2
ResetMaxSends == 1
ModelMaxSends == 1
MountMaxSends == 2
TwinMaxSends == 2
TwinMaxLen == 3
TickMs == 60000

\* ------------------------------------------------------- program constants
WatchdogMs == 60000

\* -------------------------------------------------------------------- data
Whitespace == {" "}

\* pendingMessage: string | null; null is a value no text equals
Null == <<"null">>

\* what the user may have in the textarea: texts as sequences of characters
InputTexts == {<<>>, <<" ">>, <<" ", "a", " ">>, <<"b">>}

RECURSIVE TrimStart(_)
TrimStart(s) ==
  IF s = <<>> THEN <<>>
  ELSE IF Head(s) \in Whitespace THEN TrimStart(Tail(s)) ELSE s

RECURSIVE TrimEnd(_)
TrimEnd(s) ==
  IF s = <<>> THEN <<>>
  ELSE IF s[Len(s)] \in Whitespace THEN TrimEnd(SubSeq(s, 1, Len(s) - 1)) ELSE s

\* String.prototype.trim
Trim(s) == TrimEnd(TrimStart(s))

\* JavaScript truthiness of a string | null
Truthy(p) == p # Null /\ p # <<>>

\* A Message: agent tag and content; req is not part of the program's Message, it
\* records which chat POST made the backend append the entry (0: none)
UserMessage(text, id) == [agent |-> "user", content |-> text, req |-> id]
AgentMessage(who, id) == [agent |-> who, content |-> <<"r">>, req |-> id]

\* the keys of the stored preferences
SIDEBAR_COLLAPSED_KEY == "deepresearcher-sidebar-collapsed"
STORAGE_KEY == "deepresearcher-selected-model"
StorageKeys == {SIDEBAR_COLLAPSED_KEY, STORAGE_KEY}

\* localStorage.getItem of a key that holds no item: null
NoItem == "<null>"

\* the ids of AVAILABLE_MODELS, in order
AVAILABLE_MODELS ==
  <<"gemini-3-pro-preview", "gemini-2.5-pro-preview-06-05", "gemini-2.0-flash",
    "gemini-2.0-flash-lite">>

\* the decimal digits, in order
Digit == <<"0", "1", "2", "3", "4", "5", "6", "7", "8", "9">>

\* timestamps a message may carry, as sequences of characters (the date part
\* written as one token): well-formed ISO date-times and malformed strings
Timestamps ==
  {<<"2025-01-02", "T", "0", "9", ":", "0", "5">>,
   <<"2025-01-02", "T", "2", "3", ":", "5", "9">>,
   <<"2025-01-02", "T", "2", "5", ":", "0", "0">>,
   <<"2025-13-45", "T", "0", "9", ":", "0", "5">>,
   <<"n", "o", "w">>,
   <<>>}

\* the date parts Date accepts
ValidDates == {"2025-01-02"}

\* previousArtifactRef.current === null
NoArtifact == "<null>"

\* addingPaperId === null
NoPaper == "<null>"

\* the stream route: no backend connection, no Response returned yet
NoBackend ==
  [status |-> 0, body |-> FALSE, chunks |-> <<>>, ending |-> "none", over |-> FALSE]
NoResponse == [kind |-> "none", status |-> 0, error |-> ""]

\* nothing rendered yet
NoRender == [timestamp |-> <<>>, label |-> <<"-">>]

VARIABLES
  inputMessage,             \* useState('')
  isWaitingForResponse,     \* useState(false)
  pendingMessage,           \* useState<string | null>(null)
  messageCountWhenSentRef,  \* useRef<number>(-1)
  messages,                 \* processState?.messages || []  (last polled log)
  effectDue,                \* a render changed the effects' dependencies
  elapsed,                  \* ms run by the armed watchdog timer, -1: no timer
  watchdogDep,              \* isWaitingForResponse as the timeout effect last saw it
  mutations,                \* chat POSTs in issue order: [stage, http]; http is
                            \* "detached" for a pending POST of an unmounted page
  issued,                   \* texts handed to sendMessage.mutate, in order
  serverLog,                \* the backend's message log
  lastOp,                   \* history: the handler that acted in the last step
  clearCount,               \* history: true->false steps of waiting since that send
  echoSeen,                 \* history: while waiting, that send's echo was seen last in the log
  sentModels,               \* the model each chat POST carries, in issue order
  projectStatus,            \* the completion flags of the project, as last fetched
  localStorage,             \* window.localStorage: key -> item, NoItem if absent
  isCollapsed,              \* SidebarLayout: useState(false)
  isHydrated,               \* SidebarLayout: useState(false), true once the mount effect ran
  selectedModel,            \* ModelSelector: useState(saved || first model)
  isOpen,                   \* ModelSelector: useState(false)
  rendered,                 \* the last timestamp a message bubble showed, with its label
  research,                 \* ResearchPage: [isWaiting, pending, count], fed as PaperPage is
  artifact,                 \* ResearchPage: processState?.artifact || ''
  previousArtifactRef,      \* ResearchPage: useRef<string | null>(null)
  updateIdRef,              \* ResearchPage: useRef<number>(0)
  artifactUpdates,          \* ResearchPage: useState([]), the ids of the notifications
  artifactEffectDue,        \* ResearchPage: the artifact effect has to run
  artifactLoads,            \* history: process states loaded from the server
  artifactPrev,             \* history: the artifact of the render before the last load
  currentPhase,             \* ResearchPage: processState?.current_phase || 'research_definition'
  ssePc,                    \* stream route: where GET and the read loop stand
  sseBackend,               \* stream route: what the backend stream still delivers
  sseRead,                  \* stream route: the chunks reader.read() has returned
  sseClient,                \* stream route: the chunks enqueued to the client stream
  sseClientState,           \* stream route: state of the client stream
  sseResponse,              \* stream route: the Response GET returned
  sseCancelledAt,           \* history: chunks read when cancel was called, -1: not called
  pathname,                 \* the process page the router shows
  clicked,                  \* history: the process node clicked last, "": none
  addingPaperId,            \* LiteratureSearchPage: useState<string | null>(null)
  addedPaperIds,            \* LiteratureSearchPage: useState(new Set())
  addRequests               \* LiteratureSearchPage: add requests in issue order: [paper, status]

vars == <<inputMessage, isWaitingForResponse, pendingMessage, messageCountWhenSentRef,
          messages, effectDue, elapsed, watchdogDep, mutations, issued, serverLog,
          lastOp, clearCount, echoSeen, sentModels, projectStatus, localStorage,
          isCollapsed, isHydrated, selectedModel, isOpen, rendered, research,
          artifact, previousArtifactRef, updateIdRef, artifactUpdates,
          artifactEffectDue, artifactLoads, artifactPrev, currentPhase, ssePc, sseBackend, sseRead, sseClient,
          sseClientState, sseResponse, sseCancelledAt, pathname, clicked, addingPaperId,
          addedPaperIds, addRequests>>

reconVars == <<isWaitingForResponse, pendingMessage, messageCountWhenSentRef>>
netVars == <<mutations, issued, sentModels>>

histVars == <<clearCount, echoSeen>>
timerVars == <<elapsed, watchdogDep>>
sidebarVars == <<isCollapsed, isHydrated>>
selectorVars == <<selectedModel, isOpen>>

\* what lies outside the chat of the page: the project's flags, the stored
\* preferences, the sidebar, the model selector, the rendered time
shellVars == <<projectStatus, localStorage, sidebarVars, selectorVars, rendered>>

twinVars == <<research>>
artifactVars == <<artifact, previousArtifactRef, updateIdRef, artifactUpdates,
                  artifactEffectDue, artifactLoads, artifactPrev, currentPhase>>
sseVars == <<ssePc, sseBackend, sseRead, sseClient, sseClientState, sseResponse,
             sseCancelledAt>>
navVars == <<pathname, clicked>>
litVars == <<addingPaperId, addedPaperIds, addRequests>>

\* the state of the other pages and of the stream route
pageVars == <<twinVars, artifactVars, sseVars, navVars, litVars>>

Init ==
  /\ inputMessage = <<>>
  /\ isWaitingForResponse = FALSE
  /\ pendingMessage = Null
  /\ messageCountWhenSentRef = -1
  /\ messages = <<>>
  /\ effectDue = FALSE
  /\ elapsed = -1
  /\ watchdogDep = FALSE
  /\ mutations = <<>>
  /\ issued = <<>>
  /\ serverLog = <<>>
  /\ lastOp = "other"
  /\ clearCount = 0
  /\ echoSeen = FALSE
  /\ sentModels = <<>>
  /\ projectStatus = [research_definition_complete |-> TRUE,
                      experiment_design_complete |-> TRUE]
  /\ localStorage = [key \in StorageKeys |-> NoItem]
  /\ isCollapsed = FALSE
  /\ isHydrated = FALSE
  /\ selectedModel = AVAILABLE_MODELS[1]
  /\ isOpen = FALSE
  /\ rendered = NoRender
  /\ research = [isWaiting |-> FALSE, pending |-> Null, count |-> -1]
  /\ artifact = ""
  /\ previousArtifactRef = NoArtifact
  /\ updateIdRef = 0
  /\ artifactUpdates = <<>>
  /\ artifactEffectDue = TRUE
  /\ artifactLoads = 0
  /\ artifactPrev = ""
  /\ currentPhase = "research_definition"
  /\ ssePc = "idle"
  /\ sseBackend = NoBackend
  /\ sseRead = <<>>
  /\ sseClient = <<>>
  /\ sseClientState = "none"
  /\ sseResponse = NoResponse
  /\ sseCancelledAt = -1
  /\ pathname = "paper"
  /\ clicked = ""
  /\ addingPaperId = NoPaper
  /\ addedPaperIds = {}
  /\ addRequests = <<>>

\* ------------------------------------------------------------ pure pieces
Last(log) == log[Len(log)]

\* hasStarted: the chat form is rendered only then (the page being unlocked)
hasStarted == Len(messages) > 0

\* sendMessage.isPending: the mutation observer follows the latest mutate call
sendMessageIsPending ==
  Len(mutations) > 0 /\ mutations[Len(mutations)].http = "pending"

\* JavaScript truthiness of a stored item: neither null nor the empty string
ItemTruthy(item) == item # NoItem /\ item # ""

\* as getSelectedModel, had it always answered the first available model
getSelectedModelDefault == AVAILABLE_MODELS[1]

\* getSelectedModel(): the stored model, or else the first available one
getSelectedModel ==
  IF ItemTruthy(localStorage[STORAGE_KEY]) THEN localStorage[STORAGE_KEY]
  ELSE AVAILABLE_MODELS[1]

\* the value of a decimal digit
DigitValue(c) == (CHOOSE i \in 1..10 : Digit[i] = c) - 1

IsDigit(c) == \E i \in 1..10 : Digit[i] = c

\* an invalid Date: its time value is NaN
InvalidDate == [valid |-> FALSE, hour |-> 0, minute |-> 0]

\* new Date(timestamp): the local time of a well-formed date-time, an invalid
\* Date for every other string
DateParse(ts) ==
  IF /\ Len(ts) = 7
     /\ ts[1] \in ValidDates
     /\ ts[2] = "T"
     /\ IsDigit(ts[3]) /\ IsDigit(ts[4])
     /\ ts[5] = ":"
     /\ IsDigit(ts[6]) /\ IsDigit(ts[7])
     /\ 10 * DigitValue(ts[3]) + DigitValue(ts[4]) < 24
     /\ 10 * DigitValue(ts[6]) + DigitValue(ts[7]) < 60
  THEN [valid |-> TRUE,
        hour |-> 10 * DigitValue(ts[3]) + DigitValue(ts[4]),
        minute |-> 10 * DigitValue(ts[6]) + DigitValue(ts[7])]
  ELSE InvalidDate

TwoDigit(n) == <<Digit[(n \div 10) + 1], Digit[(n % 10) + 1]>>

\* toLocaleTimeString([], {hour: '2-digit', minute: '2-digit'}) throws a
\* RangeError for unsupported locales or options only: never with these
ToLocaleTimeStringThrows(date) == FALSE

\* toLocaleTimeString([], {hour: '2-digit', minute: '2-digit'}): of an invalid
\* Date it is the string "Invalid Date"
ToLocaleTimeString(date) ==
  IF date.valid THEN TwoDigit(date.hour) \o <<":">> \o TwoDigit(date.minute)
  ELSE <<"Invalid Date">>

\* formatTimestamp: try { return new Date(..).toLocaleTimeString(..) } catch { return '' }
formatTimestamp(timestamp) ==
  IF ToLocaleTimeStringThrows(DateParse(timestamp)) THEN <<>>
  ELSE ToLocaleTimeString(DateParse(timestamp))

\* as BoolString, had the state been stored as a number
BoolStringNumeric(b) == IF b THEN "1" ELSE "0"

\* String(newState)
BoolString(b) == IF b THEN "true" ELSE "false"

\* the paper page: const isLocked = !projectStatus?.experiment_design_complete
isLocked == ~projectStatus.experiment_design_complete

\* the paper page's state query: enabled: !!projectStatus?.experiment_design_complete
processStateEnabled == projectStatus.experiment_design_complete

\* the sidebar's project node: the lock of the process 'paper'
PaperProcessLocked(project) ==
  ~(project.research_definition_complete /\ project.experiment_design_complete)

\* as SendAccepted, had the guard tested inputMessage without trimming it
SendAcceptedUntrimmed(input, waiting) == input # <<>> /\ ~waiting

\* the guard of handleSendMessage, negated: the send goes ahead
SendAccepted(input, waiting) == Trim(input) # <<>> /\ ~waiting

\* as MessageToSend, had the input been sent as typed
MessageToSendUntrimmed(input) == input

\* const messageToSend = inputMessage.trim()
MessageToSend(input) == Trim(input)

\* the state updates of an accepted handleSendMessage
SendUpdate(input, log) ==
  [count |-> Len(log), pending |-> MessageToSend(input), isWaiting |-> TRUE,
   input |-> <<>>]

\* first branch of the response-detection effect: the pending text is echoed
EchoDetected(log, pending) ==
  /\ Len(log) > 0
  /\ Truthy(pending)
  /\ Last(log).agent = "user"
  /\ Last(log).content = pending

\* as ResponseDetected, had the length test been >= instead of >
ResponseDetectedAtSnapshot(log, waiting, count) ==
  /\ Len(log) > 0
  /\ waiting
  /\ Last(log).agent # "user"
  /\ Len(log) >= count

\* as ResponseDetected, had the test of the last entry's agent been left out
ResponseDetectedAnyAgent(log, waiting, count) ==
  /\ Len(log) > 0
  /\ waiting
  /\ Len(log) > count

\* as ResponseDetected, had an empty log counted as the response
ResponseDetectedOnEmpty(log, waiting, count) ==
  /\ waiting
  /\ \/ Len(log) = 0
     \/ /\ Len(log) > 0
        /\ Last(log).agent # "user"
        /\ Len(log) > count

\* second branch of the response-detection effect: a reply has arrived
ResponseDetected(log, waiting, count) ==
  /\ Len(log) > 0
  /\ waiting
  /\ Last(log).agent # "user"
  /\ Len(log) > count

\* as ResponseDetection, had every log update without a response taken a new
\* snapshot of the log's length
ResponseDetectionResnapshots(log, waiting, pending, count) ==
  [isWaiting |-> IF ResponseDetected(log, waiting, count) THEN FALSE ELSE waiting,
   pending |-> IF EchoDetected(log, pending) \/ ResponseDetected(log, waiting, count)
               THEN Null ELSE pending,
   count |-> IF ResponseDetected(log, waiting, count) THEN -1 ELSE Len(log)]

\* the response-detection effect, run with one render's values
ResponseDetection(log, waiting, pending, count) ==
  [isWaiting |-> IF ResponseDetected(log, waiting, count) THEN FALSE ELSE waiting,
   pending |-> IF EchoDetected(log, pending) \/ ResponseDetected(log, waiting, count)
               THEN Null ELSE pending,
   count |-> IF ResponseDetected(log, waiting, count) THEN -1 ELSE count]

\* as WatchdogEffect, had the effect never started a timer
WatchdogEffectNeverArms(waiting, dep, timer) == -1

\* as WatchdogEffect, had the effect had no cleanup: a timer is started when
\* waiting and none runs, and is never cleared
WatchdogEffectNoCleanup(waiting, dep, timer) ==
  IF waiting /\ timer < 0 THEN 0 ELSE timer

\* the timeout effect, deps [isWaitingForResponse]: on a change of the dep the
\* cleanup clears the old timer, and a timer is started when waiting
WatchdogEffect(waiting, dep, timer) ==
  IF waiting = dep THEN timer
  ELSE IF waiting THEN 0 ELSE -1

\* as TimeoutCallback, had the callback rolled back like onError
TimeoutCallbackRollsBack(waiting, pending, count) ==
  [isWaiting |-> FALSE, pending |-> Null, count |-> -1]

\* as TimeoutCallback, had the callback left the flag as it was
TimeoutCallbackKeepsWaiting(waiting, pending, count) ==
  [isWaiting |-> waiting, pending |-> pending, count |-> count]

\* the timer's callback: setIsWaitingForResponse(false)
TimeoutCallback(waiting, pending, count) ==
  [isWaiting |-> FALSE, pending |-> pending, count |-> count]

\* as OnError, had the callback left the pending message
OnErrorKeepsPending(waiting, pending, count) ==
  [isWaiting |-> FALSE, pending |-> pending, count |-> -1]

\* onError of the chat mutation
OnError(waiting, pending, count) ==
  [isWaiting |-> FALSE, pending |-> Null, count |-> -1]

\* while the wait lasts: the effects ran on a log that ends with the echo of
\* the last accepted send
OwnEchoSeen(log, waitingAfter) ==
  /\ waitingAfter
  /\ \/ echoSeen
     \/ /\ Len(log) > 0
        /\ Last(log).agent = "user"
        /\ Last(log).req = Len(issued)

\* true->false steps of isWaitingForResponse since the last accepted send
Cleared(before, after) == IF before /\ ~after THEN clearCount + 1 ELSE clearCount

\* ------------------------------------------------------- client handlers
\* handleSendMessage, from the form's onSubmit
HandleSendMessage ==
  /\ ~effectDue
  /\ hasStarted
  /\ IF SendAccepted(inputMessage, isWaitingForResponse)
     THEN LET u == SendUpdate(inputMessage, messages)
          IN /\ messageCountWhenSentRef' = u.count
             /\ pendingMessage' = u.pending
             /\ isWaitingForResponse' = u.isWaiting
             /\ inputMessage' = u.input
             /\ issued' = Append(issued, MessageToSend(inputMessage))
             /\ sentModels' = Append(sentModels, getSelectedModel)
             /\ mutations' = Append(mutations, [stage |-> "sent", http |-> "pending"])
             /\ effectDue' = (u.isWaiting # isWaitingForResponse
                              \/ u.pending # pendingMessage)
             /\ lastOp' = "sendAccepted"
             /\ clearCount' = 0
             /\ echoSeen' = FALSE
     ELSE /\ lastOp' = "sendRejected"
          /\ UNCHANGED <<reconVars, inputMessage, netVars, effectDue, histVars>>
  /\ UNCHANGED <<shellVars, messages, timerVars, serverLog>>
  /\ UNCHANGED pageVars

\* Enter in the textarea (enabled only while not waiting): onKeyDown
PressEnter ==
  /\ ~isWaitingForResponse
  /\ Trim(inputMessage) # <<>>
  /\ HandleSendMessage

\* click on the submit button (disabled while empty, pending or waiting)
ClickSubmit ==
  /\ Trim(inputMessage) # <<>>
  /\ ~sendMessageIsPending
  /\ ~isWaitingForResponse
  /\ HandleSendMessage

\* typing in the textarea, or a quick-action button: both need not waiting
SetInputMessage(text) ==
  /\ ~effectDue
  /\ hasStarted
  /\ ~isWaitingForResponse
  /\ text # inputMessage
  /\ inputMessage' = text
  /\ lastOp' = "other"
  /\ UNCHANGED <<shellVars, reconVars, messages, effectDue, timerVars, netVars, serverLog, histVars>>
  /\ UNCHANGED pageVars

\* the passive effects of the last render: response detection, then the watchdog
RunEffects ==
  /\ effectDue
  /\ LET r == ResponseDetection(messages, isWaitingForResponse, pendingMessage,
                                messageCountWhenSentRef)
     IN /\ isWaitingForResponse' = r.isWaiting
        /\ pendingMessage' = r.pending
        /\ messageCountWhenSentRef' = r.count
        /\ effectDue' = (r.isWaiting # isWaitingForResponse \/ r.pending # pendingMessage)
        /\ clearCount' = Cleared(isWaitingForResponse, r.isWaiting)
        /\ echoSeen' = OwnEchoSeen(messages, r.isWaiting)
  /\ elapsed' = WatchdogEffect(isWaitingForResponse, watchdogDep, elapsed)
  /\ watchdogDep' = isWaitingForResponse
  /\ lastOp' = "effect"
  /\ UNCHANGED <<shellVars, inputMessage, messages, netVars, serverLog>>
  /\ UNCHANGED pageVars

\* the watchdog timer fires
WatchdogTimeout ==
  /\ ~effectDue
  /\ elapsed >= WatchdogMs
  /\ LET r == TimeoutCallback(isWaitingForResponse, pendingMessage,
                              messageCountWhenSentRef)
     IN /\ isWaitingForResponse' = r.isWaiting
        /\ pendingMessage' = r.pending
        /\ messageCountWhenSentRef' = r.count
        /\ effectDue' = (r.isWaiting # isWaitingForResponse \/ r.pending # pendingMessage)
        /\ clearCount' = Cleared(isWaitingForResponse, r.isWaiting)
        /\ echoSeen' = (echoSeen /\ r.isWaiting)
  /\ elapsed' = -1
  /\ lastOp' = "timeout"
  /\ UNCHANGED <<shellVars, inputMessage, messages, watchdogDep, netVars, serverLog>>
  /\ UNCHANGED pageVars

\* time passes for the armed timer
Tick ==
  /\ elapsed >= 0
  /\ elapsed < WatchdogMs
  /\ elapsed' = elapsed + TickMs
  /\ lastOp' = "other"
  /\ UNCHANGED <<shellVars, inputMessage, reconVars, messages, effectDue, watchdogDep, netVars,
                 serverLog, histVars>>
  /\ UNCHANGED pageVars

\* a refetch of the process state delivers the backend's log
Poll ==
  /\ ~effectDue
  /\ messages # serverLog
  /\ messages' = serverLog
  /\ effectDue' = TRUE
  /\ lastOp' = "other"
  /\ UNCHANGED <<shellVars, inputMessage, reconVars, timerVars, netVars, serverLog, histVars>>
  /\ UNCHANGED pageVars

\* as ChatSucceeds, had onSuccess ended the wait itself
ChatSucceedsEndsWait(id) ==
  /\ ~effectDue
  /\ mutations[id].http = "pending"
  /\ mutations[id].stage = "replied"
  /\ mutations' = [mutations EXCEPT ![id].http = "settled"]
  /\ IF id = Len(mutations)
     THEN /\ isWaitingForResponse' = FALSE
          /\ pendingMessage' = Null
          /\ messageCountWhenSentRef' = -1
          /\ effectDue' = (isWaitingForResponse \/ pendingMessage # Null)
          /\ clearCount' = Cleared(isWaitingForResponse, FALSE)
          /\ echoSeen' = FALSE
          /\ lastOp' = "onSuccess"
     ELSE /\ lastOp' = "other"
          /\ UNCHANGED <<reconVars, effectDue, clearCount, echoSeen>>
  /\ UNCHANGED <<shellVars, inputMessage, messages, timerVars, issued, sentModels, serverLog>>
  /\ UNCHANGED pageVars

\* the chat POST number id succeeds (http: pending -> settled); the callbacks given to mutate run only for
\* the latest mutate call: onSuccess invalidates the process-state query
ChatSucceeds(id) ==
  /\ ~effectDue
  /\ mutations[id].http = "pending"
  /\ mutations[id].stage = "replied"
  /\ mutations' = [mutations EXCEPT ![id].http = "settled"]
  /\ lastOp' = IF id = Len(mutations) THEN "onSuccess" ELSE "other"
  /\ UNCHANGED <<shellVars, inputMessage, reconVars, messages, effectDue, timerVars, issued, sentModels,
                 serverLog, histVars>>
  /\ UNCHANGED pageVars

\* as ChatFails, had a failed POST been sent again (at most once more than the
\* user may send)
ChatFailsRetries(id) ==
  /\ ~effectDue
  /\ mutations[id].http = "pending"
  /\ Len(issued) <= MaxSends
  /\ mutations' = Append([mutations EXCEPT ![id].http = "settled"],
                         [stage |-> "sent", http |-> "pending"])
  /\ issued' = Append(issued, issued[id])
  /\ sentModels' = Append(sentModels, sentModels[id])
  /\ lastOp' = "onError"
  /\ UNCHANGED <<shellVars, inputMessage, reconVars, messages, effectDue, timerVars, serverLog,
                 histVars>>
  /\ UNCHANGED pageVars

\* as ChatFails, had the onError given to an earlier mutate call run as well
ChatFailsAnyCallback(id) ==
  /\ ~effectDue
  /\ mutations[id].http = "pending"
  /\ mutations' = [mutations EXCEPT ![id].http = "settled"]
  /\ LET r == OnError(isWaitingForResponse, pendingMessage, messageCountWhenSentRef)
     IN /\ isWaitingForResponse' = r.isWaiting
        /\ pendingMessage' = r.pending
        /\ messageCountWhenSentRef' = r.count
        /\ effectDue' = (r.isWaiting # isWaitingForResponse
                         \/ r.pending # pendingMessage)
        /\ clearCount' = Cleared(isWaitingForResponse, r.isWaiting)
        /\ echoSeen' = (echoSeen /\ r.isWaiting)
  /\ lastOp' = IF id = Len(mutations) THEN "onError" ELSE "staleFailure"
  /\ UNCHANGED <<shellVars, inputMessage, messages, timerVars, issued, sentModels, serverLog>>
  /\ UNCHANGED pageVars

\* the chat POST number id fails; onError runs only for the latest mutate call
ChatFails(id) ==
  /\ ~effectDue
  /\ mutations[id].http = "pending"
  /\ mutations' = [mutations EXCEPT ![id].http = "settled"]
  /\ IF id = Len(mutations)
     THEN LET r == OnError(isWaitingForResponse, pendingMessage, messageCountWhenSentRef)
          IN /\ isWaitingForResponse' = r.isWaiting
             /\ pendingMessage' = r.pending
             /\ messageCountWhenSentRef' = r.count
             /\ effectDue' = (r.isWaiting # isWaitingForResponse
                              \/ r.pending # pendingMessage)
             /\ clearCount' = Cleared(isWaitingForResponse, r.isWaiting)
             /\ echoSeen' = (echoSeen /\ r.isWaiting)
             /\ lastOp' = "onError"
     ELSE /\ lastOp' = "staleFailure"
          /\ UNCHANGED <<reconVars, effectDue, clearCount, echoSeen>>
  /\ UNCHANGED <<shellVars, inputMessage, messages, timerVars, issued, sentModels, serverLog>>
  /\ UNCHANGED pageVars

\* resetProcess with reset_messages: the backend empties the log, onSuccess
\* invalidates the process-state query
ResetMessages ==
  /\ ~effectDue
  /\ serverLog # <<>>
  /\ serverLog' = <<>>
  /\ lastOp' = "other"
  /\ UNCHANGED <<shellVars, inputMessage, reconVars, messages, effectDue, timerVars, netVars,
                 histVars>>
  /\ UNCHANGED pageVars

\* startProcess from the empty state: the backend opens the conversation
StartProcess ==
  /\ ~effectDue
  /\ ~hasStarted
  /\ serverLog = <<>>
  /\ serverLog' = <<AgentMessage("system", 0)>>
  /\ lastOp' = "other"
  /\ UNCHANGED <<shellVars, inputMessage, reconVars, messages, effectDue, timerVars, netVars, histVars>>
  /\ UNCHANGED pageVars

\* the observer of an unmounted page is gone: for its pending POSTs no
\* callback and no isPending is left
Detach(posts) ==
  [id \in 1..Len(posts) |->
     IF posts[id].http = "pending" THEN [posts[id] EXCEPT !.http = "detached"]
     ELSE posts[id]]

\* the page is unmounted and mounted again (navigation away and back): the
\* cleanup of the timeout effect clears the timer, the state starts from the
\* useState values, the log shown is the cached one or none, and the effects
\* of the mount are due
PageRemount ==
  /\ ~effectDue
  /\ inputMessage' = <<>>
  /\ isWaitingForResponse' = FALSE
  /\ pendingMessage' = Null
  /\ messageCountWhenSentRef' = -1
  /\ elapsed' = WatchdogEffect(FALSE, isWaitingForResponse, elapsed)
  /\ watchdogDep' = FALSE
  /\ messages' \in {messages, <<>>}
  /\ effectDue' = TRUE
  /\ mutations' = Detach(mutations)
  /\ clearCount' = Cleared(isWaitingForResponse, FALSE)
  /\ echoSeen' = FALSE
  /\ isCollapsed' = FALSE
  /\ isHydrated' = FALSE
  /\ selectedModel' = getSelectedModel
  /\ isOpen' = FALSE
  /\ lastOp' = "remount"
  /\ UNCHANGED <<issued, sentModels, serverLog, projectStatus, localStorage, rendered>>
  /\ UNCHANGED pageVars

\* ------------------------------------------------------------ the backend
\* the backend takes up chat POST id and appends the user's entry
ServerReceives(id) ==
  /\ mutations[id].stage = "sent"
  /\ mutations[id].http \in {"pending", "detached"}
  /\ mutations' = [mutations EXCEPT ![id].stage = "received"]
  /\ serverLog' = Append(serverLog, UserMessage(issued[id], id))
  /\ lastOp' = "other"
  /\ UNCHANGED <<shellVars, inputMessage, reconVars, messages, effectDue, timerVars, issued, sentModels, histVars>>
  /\ UNCHANGED pageVars

\* the agent turn of chat POST id ends: the backend appends the reply
ServerReplies(id) ==
  /\ mutations[id].stage = "received"
  /\ mutations[id].http \in {"pending", "detached"}
  /\ mutations' = [mutations EXCEPT ![id].stage = "replied"]
  /\ serverLog' = Append(serverLog, AgentMessage("journal_writing", id))
  /\ lastOp' = "other"
  /\ UNCHANGED <<shellVars, inputMessage, reconVars, messages, effectDue, timerVars, issued, sentModels, histVars>>
  /\ UNCHANGED pageVars

\* ------------------------------------------------- around the chat: shell
\* the chat's own state, lastOp apart
chatVars == <<inputMessage, reconVars, messages, effectDue, timerVars, netVars,
              serverLog, histVars>>

\* a refetch of the project status delivers the project's completion flags
ProjectStatusFetched(rd, ed) ==
  /\ projectStatus' = [research_definition_complete |-> rd,
                       experiment_design_complete |-> ed]
  /\ projectStatus' # projectStatus
  /\ lastOp' = "other"
  /\ UNCHANGED <<chatVars, localStorage, sidebarVars, selectorVars, rendered>>
  /\ UNCHANGED pageVars

\* SidebarLayout's mount effect: load the collapsed state
SidebarMountEffect ==
  /\ ~isHydrated
  /\ LET saved == localStorage[SIDEBAR_COLLAPSED_KEY]
     IN isCollapsed' = IF saved # NoItem THEN saved = "true" ELSE isCollapsed
  /\ isHydrated' = TRUE
  /\ lastOp' = "mountEffect"
  /\ UNCHANGED <<chatVars, projectStatus, localStorage, selectorVars, rendered>>
  /\ UNCHANGED pageVars

\* toggleSidebar (handled once the mount effect has run)
toggleSidebar ==
  /\ isHydrated
  /\ LET newState == ~isCollapsed
     IN /\ isCollapsed' = newState
        /\ localStorage' = [localStorage EXCEPT ![SIDEBAR_COLLAPSED_KEY] = BoolString(newState)]
  /\ lastOp' = "other"
  /\ UNCHANGED <<chatVars, projectStatus, isHydrated, selectorVars, rendered>>
  /\ UNCHANGED pageVars

\* the layout is unmounted and mounted again (navigation, reload): its
\* state starts from the useState values
SidebarRemount ==
  /\ isHydrated
  /\ isCollapsed' = FALSE
  /\ isHydrated' = FALSE
  /\ lastOp' = "other"
  /\ UNCHANGED <<chatVars, projectStatus, localStorage, selectorVars, rendered>>
  /\ UNCHANGED pageVars

\* a message bubble renders the time of a message
RenderTimestamp(ts) ==
  /\ rendered' = [timestamp |-> ts, label |-> formatTimestamp(ts)]
  /\ rendered' # rendered
  /\ lastOp' = "other"
  /\ UNCHANGED <<chatVars, projectStatus, localStorage, sidebarVars, selectorVars>>
  /\ UNCHANGED pageVars

\* the trigger button of the model selector
ToggleModelMenu ==
  /\ ~effectDue
  /\ isOpen' = ~isOpen
  /\ lastOp' = "other"
  /\ UNCHANGED <<chatVars, projectStatus, localStorage, sidebarVars, selectedModel, rendered>>
  /\ UNCHANGED pageVars

\* handleSelectModel, from an entry of the open menu
handleSelectModel(modelId) ==
  /\ ~effectDue
  /\ isOpen
  /\ selectedModel' = modelId
  /\ localStorage' = [localStorage EXCEPT ![STORAGE_KEY] = modelId]
  /\ isOpen' = FALSE
  /\ lastOp' = "other"
  /\ UNCHANGED <<chatVars, projectStatus, sidebarVars, rendered>>
  /\ UNCHANGED pageVars

\* handleClickOutside: a mousedown outside the open menu closes it
handleClickOutside ==
  /\ ~effectDue
  /\ isOpen
  /\ isOpen' = FALSE
  /\ lastOp' = "other"
  /\ UNCHANGED <<chatVars, projectStatus, localStorage, sidebarVars, selectedModel, rendered>>
  /\ UNCHANGED pageVars

\* the sidebar, the project's flags and the rendering of times
\* the sidebar's project node: the four processes
ProcessIds == {"research", "literature-org", "literature-search", "paper"}

\* as ProcessLocked, had literature search waited for the experiment design only
ProcessLockedByDesign(id, project) ==
  CASE id = "research" -> FALSE
    [] id = "literature-org" -> FALSE
    [] id = "literature-search" -> ~project.experiment_design_complete
    [] id = "paper" -> PaperProcessLocked(project)

\* the sidebar's project node: the lock of each process
ProcessLocked(id, project) ==
  CASE id = "research" -> FALSE
    [] id = "literature-org" -> FALSE
    [] id = "literature-search" ->
         ~(project.research_definition_complete /\ project.experiment_design_complete)
    [] id = "paper" -> PaperProcessLocked(project)

\* the literature-search page: const isLocked = !(... && ...)
LiteratureSearchIsLocked ==
  ~(projectStatus.research_definition_complete /\ projectStatus.experiment_design_complete)

\* the literature-search page's state query: enabled: !isLocked
searchStateEnabled == ~LiteratureSearchIsLocked

\* ProcessNode.handleClick: a locked process returns, any other is pushed
ProcessNodeClick(id) ==
  /\ clicked' = id
  /\ IF ProcessLocked(id, projectStatus)
     THEN /\ UNCHANGED pathname
          /\ lastOp' = "lockedClick"
     ELSE /\ pathname' = id
          /\ lastOp' = "navigate"
  /\ UNCHANGED <<chatVars, shellVars, twinVars, artifactVars, sseVars, litVars>>

ShellNext ==
  \/ \E id \in ProcessIds : ProcessNodeClick(id)
  \/ \E rd \in BOOLEAN : \E ed \in BOOLEAN : ProjectStatusFetched(rd, ed)
  \/ SidebarMountEffect
  \/ toggleSidebar
  \/ SidebarRemount
  \/ \E ts \in Timestamps : RenderTimestamp(ts)

ShellSpec == Init /\ [][ShellNext]_vars

\* -------------------------------------------- ResearchPage beside PaperPage
\* ResearchPage.handleSendMessage: its guard, negated
ResearchSendAccepted(input, waiting) == Trim(input) # <<>> /\ ~waiting

\* ResearchPage.handleSendMessage: the state updates of an accepted send
ResearchSendUpdate(input, log) ==
  [isWaiting |-> TRUE, pending |-> Trim(input), count |-> Len(log)]

\* ResearchPage response detection, first branch
ResearchEchoDetected(log, pending) ==
  /\ Len(log) > 0
  /\ Truthy(pending)
  /\ log[Len(log)].agent = "user"
  /\ log[Len(log)].content = pending

\* as ResearchResponseDetected, had the length test been >= instead of >
ResearchResponseDetectedAtSnapshot(log, waiting, count) ==
  /\ Len(log) > 0
  /\ waiting
  /\ log[Len(log)].agent # "user"
  /\ Len(log) >= count

\* ResearchPage response detection, condition of the second branch
ResearchResponseDetected(log, waiting, count) ==
  /\ Len(log) > 0
  /\ waiting
  /\ log[Len(log)].agent # "user"
  /\ Len(log) > count

\* ResearchPage response-detection effect
ResearchResponseDetection(log, st) ==
  IF ResearchResponseDetected(log, st.isWaiting, st.count)
  THEN [isWaiting |-> FALSE, pending |-> Null, count |-> -1]
  ELSE IF ResearchEchoDetected(log, st.pending)
  THEN [st EXCEPT !.pending = Null]
  ELSE st

\* ResearchPage timeout callback
ResearchTimeoutCallback(st) == [st EXCEPT !.isWaiting = FALSE]

\* ResearchPage.handleSendMessage onError
ResearchOnError(st) == [isWaiting |-> FALSE, pending |-> Null, count |-> -1]

\* the logs fed to both pages
TwinEntries ==
  {UserMessage(<<"a">>, 0), UserMessage(<<"b">>, 0), AgentMessage("journal_writing", 0)}

TwinLogs == UNION {[1..n -> TwinEntries] : n \in 0..TwinMaxLen}

\* PaperPage's waiting, pending and snapshot as one record
PaperState(waiting, pending, count) ==
  [isWaiting |-> waiting, pending |-> pending, count |-> count]

\* both pages take paper and res as their states and run their effects on log
TwinSettle(paper, res, log) ==
  LET r == ResponseDetection(log, paper.isWaiting, paper.pending, paper.count)
  IN /\ isWaitingForResponse' = r.isWaiting
     /\ pendingMessage' = r.pending
     /\ messageCountWhenSentRef' = r.count
     /\ research' = ResearchResponseDetection(log, res)

twinFrame == <<effectDue, timerVars, mutations, sentModels, serverLog, histVars,
               shellVars, artifactVars, sseVars, navVars, litVars>>

\* the same input is submitted on both pages
TwinSend(text) ==
  /\ Len(issued) < TwinMaxSends
  /\ TwinSettle(
       IF SendAccepted(text, isWaitingForResponse)
       THEN LET u == SendUpdate(text, messages)
            IN PaperState(u.isWaiting, u.pending, u.count)
       ELSE PaperState(isWaitingForResponse, pendingMessage, messageCountWhenSentRef),
       IF ResearchSendAccepted(text, research.isWaiting)
       THEN ResearchSendUpdate(text, messages)
       ELSE research,
       messages)
  /\ issued' = IF SendAccepted(text, isWaitingForResponse)
               THEN Append(issued, MessageToSend(text)) ELSE issued
  /\ inputMessage' = IF SendAccepted(text, isWaitingForResponse) THEN <<>> ELSE text
  /\ lastOp' = "twinSend"
  /\ UNCHANGED <<messages, twinFrame>>

\* the same log is delivered to both pages
TwinLogUpdate(log) ==
  /\ log # messages
  /\ messages' = log
  /\ TwinSettle(PaperState(isWaitingForResponse, pendingMessage, messageCountWhenSentRef),
                research, log)
  /\ lastOp' = "twinLog"
  /\ UNCHANGED <<inputMessage, issued, twinFrame>>

\* the POST of the last send fails on both pages
TwinOnError ==
  /\ Len(issued) > 0
  /\ LET r == OnError(isWaitingForResponse, pendingMessage, messageCountWhenSentRef)
     IN TwinSettle(PaperState(r.isWaiting, r.pending, r.count),
                   ResearchOnError(research), messages)
  /\ lastOp' = "twinError"
  /\ UNCHANGED <<inputMessage, messages, issued, twinFrame>>

\* the watchdog fires on both pages
TwinTimeout ==
  /\ isWaitingForResponse \/ research.isWaiting
  /\ LET r == TimeoutCallback(isWaitingForResponse, pendingMessage,
                              messageCountWhenSentRef)
     IN TwinSettle(PaperState(r.isWaiting, r.pending, r.count),
                   ResearchTimeoutCallback(research), messages)
  /\ lastOp' = "twinTimeout"
  /\ UNCHANGED <<inputMessage, messages, issued, twinFrame>>

TwinNext ==
  \/ \E text \in InputTexts : TwinSend(text)
  \/ \E log \in TwinLogs : TwinLogUpdate(log)
  \/ TwinOnError
  \/ TwinTimeout

TwinSpec == Init /\ [][TwinNext]_vars

\* the user makes at most cap sends
CanSendMore(cap) == Len(issued) < cap

\* the conversation without resets: the log only grows
Next ==
  \/ CanSendMore(MaxSends) /\ HandleSendMessage
  \/ CanSendMore(MaxSends) /\ PressEnter
  \/ CanSendMore(MaxSends) /\ ClickSubmit
  \/ \E text \in InputTexts : SetInputMessage(text)
  \/ RunEffects
  \/ WatchdogTimeout
  \/ Tick
  \/ Poll
  \/ \E id \in 1..Len(mutations) : ChatSucceeds(id)
  \/ \E id \in 1..Len(mutations) : ChatFails(id)
  \/ StartProcess
  \/ \E id \in 1..Len(mutations) : ServerReceives(id)
  \/ \E id \in 1..Len(mutations) : ServerReplies(id)

Spec == Init /\ [][Next]_vars

\* the conversation with resets of the messages
ResetNext ==
  \/ CanSendMore(ResetMaxSends) /\ HandleSendMessage
  \/ CanSendMore(ResetMaxSends) /\ PressEnter
  \/ CanSendMore(ResetMaxSends) /\ ClickSubmit
  \/ \E text \in InputTexts : SetInputMessage(text)
  \/ RunEffects
  \/ WatchdogTimeout
  \/ Tick
  \/ Poll
  \/ \E id \in 1..Len(mutations) : ChatSucceeds(id)
  \/ \E id \in 1..Len(mutations) : ChatFails(id)
  \/ ResetMessages
  \/ StartProcess
  \/ \E id \in 1..Len(mutations) : ServerReceives(id)
  \/ \E id \in 1..Len(mutations) : ServerReplies(id)

ResetSpec == Init /\ [][ResetNext]_vars

\* the conversation with the page left and entered again
MountNext ==
  \/ CanSendMore(MountMaxSends) /\ HandleSendMessage
  \/ CanSendMore(MountMaxSends) /\ PressEnter
  \/ CanSendMore(MountMaxSends) /\ ClickSubmit
  \/ \E text \in InputTexts : SetInputMessage(text)
  \/ RunEffects
  \/ WatchdogTimeout
  \/ Tick
  \/ Poll
  \/ \E id \in 1..Len(mutations) : ChatSucceeds(id)
  \/ \E id \in 1..Len(mutations) : ChatFails(id)
  \/ StartProcess
  \/ \E id \in 1..Len(mutations) : ServerReceives(id)
  \/ \E id \in 1..Len(mutations) : ServerReplies(id)
  \/ PageRemount

MountSpec == Init /\ [][MountNext]_vars

\* the conversation with the model selector in use
ModelNext ==
  \/ CanSendMore(ModelMaxSends) /\ HandleSendMessage
  \/ CanSendMore(ModelMaxSends) /\ PressEnter
  \/ CanSendMore(ModelMaxSends) /\ ClickSubmit
  \/ \E text \in InputTexts : SetInputMessage(text)
  \/ RunEffects
  \/ WatchdogTimeout
  \/ Tick
  \/ Poll
  \/ \E id \in 1..Len(mutations) : ChatSucceeds(id)
  \/ \E id \in 1..Len(mutations) : ChatFails(id)
  \/ StartProcess
  \/ \E id \in 1..Len(mutations) : ServerReceives(id)
  \/ \E id \in 1..Len(mutations) : ServerReplies(id)
  \/ ToggleModelMenu
  \/ handleClickOutside
  \/ \E i \in 1..Len(AVAILABLE_MODELS) : handleSelectModel(AVAILABLE_MODELS[i])

ModelSpec == Init /\ [][ModelNext]_vars

\* React runs the effects of a render and time passes; a timer that is due
\* sits in the event loop's queue and its callback runs, however often other
\* events come before it
Fairness == WF_vars(RunEffects) /\ WF_vars(Tick) /\ SF_vars(WatchdogTimeout)

FairSpec == ResetSpec /\ Fairness

\* ------------------------------------------------------------------ claims
\* the text of the last accepted send
sentText == IF issued = <<>> THEN Null ELSE issued[Len(issued)]

NonBlankTexts == {text \in InputTexts : Trim(text) # <<>>}
PendingPosts == {id \in 1..Len(mutations) : mutations[id].http = "pending"}

\* C1: at most one chat POST is outstanding at any time: no send is issued
\* while the request of an earlier send has not completed.
C1_OneOutstandingSend == Cardinality(PendingPosts) <= 1

\* C2: an accepted send (input non-blank after trimming, not waiting) records
\* the log length as the snapshot, stores the trimmed input as pending, sets
\* waiting, clears the input and issues exactly one POST with the trimmed text.
C2_AcceptedSend ==
  [][lastOp' = "sendAccepted" =>
       /\ Trim(inputMessage) # <<>>
       /\ ~isWaitingForResponse
       /\ messageCountWhenSentRef' = Len(messages)
       /\ pendingMessage' = Trim(inputMessage)
       /\ isWaitingForResponse'
       /\ inputMessage' = <<>>
       /\ issued' = Append(issued, Trim(inputMessage))
       /\ Len(mutations') = Len(mutations) + 1
       /\ SubSeq(mutations', 1, Len(mutations)) = mutations]_vars

C2_Witness ==
  /\ lastOp = "sendAccepted"
  /\ pendingMessage = <<"a">>
  /\ issued[Len(issued)] = <<"a">>
  /\ isWaitingForResponse
  /\ inputMessage = <<>>
  /\ messageCountWhenSentRef = Len(messages)

\* C3: handleSendMessage called with input that is empty after trimming, or
\* while waiting, changes nothing and issues no POST; only a call with
\* non-blank input while not waiting is accepted.
C3_RejectedSend ==
  [][/\ lastOp' = "sendRejected" =>
          /\ (Trim(inputMessage) = <<>> \/ isWaitingForResponse)
          /\ UNCHANGED <<pendingMessage, isWaitingForResponse, messageCountWhenSentRef,
                         inputMessage, issued, mutations>>
     /\ lastOp' = "sendAccepted" =>
          (Trim(inputMessage) # <<>> /\ ~isWaitingForResponse)]_vars

C3_Witness ==
  /\ lastOp = "sendRejected"
  /\ inputMessage = <<" ">>
  /\ ~isWaitingForResponse
  /\ Len(issued) = 1

\* C4: on a log update while waiting, waiting and pending are cleared and the
\* snapshot reset to -1 exactly when the last entry is from a non-user agent
\* and the log is strictly longer than the snapshot; otherwise waiting and the
\* snapshot stay.
C4_ResponseEndsWait ==
  [][(lastOp' = "effect" /\ isWaitingForResponse) =>
       IF /\ Len(messages) > 0
          /\ Last(messages).agent # "user"
          /\ Len(messages) > messageCountWhenSentRef
       THEN /\ ~isWaitingForResponse'
            /\ pendingMessage' = Null
            /\ messageCountWhenSentRef' = -1
       ELSE /\ isWaitingForResponse'
            /\ messageCountWhenSentRef' = messageCountWhenSentRef]_vars

\* the effects have run on a log that ends with an agent's entry and is no
\* longer than the snapshot, and the wait goes on
C4_Witness ==
  /\ lastOp = "effect"
  /\ ~effectDue
  /\ isWaitingForResponse
  /\ Len(messages) > 0
  /\ Last(messages).agent # "user"
  /\ Len(messages) <= messageCountWhenSentRef

\* C5: on a log update with a pending message whose text the last entry, a
\* user entry, carries, pending is cleared and waiting is left as it was; a
\* log update never clears waiting unless the log ends with a non-user entry.
C5_EchoClearsPendingOnly ==
  [][lastOp' = "effect" =>
       /\ (/\ Truthy(pendingMessage)
           /\ Len(messages) > 0
           /\ Last(messages).agent = "user"
           /\ Last(messages).content = pendingMessage)
          => (/\ pendingMessage' = Null
              /\ isWaitingForResponse' = isWaitingForResponse
              /\ messageCountWhenSentRef' = messageCountWhenSentRef)
       /\ (isWaitingForResponse /\ ~isWaitingForResponse')
          => (Len(messages) > 0 /\ Last(messages).agent # "user")]_vars

C5_Witness ==
  /\ lastOp = "effect"
  /\ isWaitingForResponse
  /\ pendingMessage = Null
  /\ echoSeen
  /\ Last(messages).agent = "user"
  /\ Last(messages).content = sentText

\* C6: the failure callback clears waiting and pending together and resets
\* the snapshot to -1, whatever was seen before; a new send is accepted
\* right after it.
C6_FailureRollsBack ==
  lastOp = "onError" =>
    /\ ~isWaitingForResponse
    /\ pendingMessage = Null
    /\ messageCountWhenSentRef = -1
    /\ \A text \in NonBlankTexts : SendAccepted(text, isWaitingForResponse)

\* the callback ran while the send was waiting with its bubble still shown
C6_Witness ==
  /\ lastOp = "onError"
  /\ clearCount = 1
  /\ effectDue
  /\ Len(messages) > 1

\* C7: the watchdog fires only after the wait has lasted 60 seconds; it sets
\* waiting to false, leaves pending and the snapshot, and a new send is
\* accepted afterwards although pending is still set.
C7_WatchdogEndsWait ==
  [][/\ lastOp' = "timeout" =>
          /\ elapsed >= WatchdogMs
          /\ isWaitingForResponse
          /\ ~isWaitingForResponse'
          /\ pendingMessage' = pendingMessage
          /\ messageCountWhenSentRef' = messageCountWhenSentRef
     /\ (lastOp = "timeout" /\ lastOp' = "effect") =>
          /\ pendingMessage' = pendingMessage
          /\ \A text \in NonBlankTexts : SendAccepted(text, isWaitingForResponse')]_vars

\* a second send was accepted while the bubble of the first, ended by the
\* watchdog, was still shown
C7_Witness ==
  /\ lastOp = "sendAccepted"
  /\ Len(issued) = 2
  /\ issued[1] # issued[2]
  /\ mutations[1] = [stage |-> "sent", http |-> "pending"]
  /\ serverLog = messages
  /\ Len(messages) = 1

\* C8: every accepted send is eventually followed by a state in which
\* waiting is false, also when the log is never updated or is reset.
C8_WaitEnds == isWaitingForResponse ~> ~isWaitingForResponse

\* the watchdog ended a wait during which the log was reset
C8_Witness ==
  /\ lastOp = "timeout"
  /\ messages = <<>>
  /\ ~isWaitingForResponse

\* C9: for each accepted send, waiting goes from true to false exactly once
\* before the next send, by the first of response detection, failure callback
\* and watchdog; once false only a send makes it true; the step of the
\* watchdog leaves it false.
C9_ClearedOnce ==
  /\ clearCount <= 1
  /\ Len(issued) >= 1 => (isWaitingForResponse <=> clearCount = 0)
  /\ lastOp = "timeout" => (~isWaitingForResponse /\ clearCount = 1)

\* the watchdog ended a wait in which neither echo nor response was seen
C9_Witness ==
  /\ lastOp = "timeout"
  /\ clearCount = 1
  /\ pendingMessage = sentText
  /\ messages = serverLog
  /\ Len(messages) = 1

\* C10: from an accepted send until its resolution (its echo, the response,
\* the timeout or the rollback) pending holds exactly the text of that send.
C10_PendingUntilResolved ==
  isWaitingForResponse =>
    \/ pendingMessage = sentText
    \/ pendingMessage = Null /\ echoSeen

\* C11: the log-update handler is idempotent: applied again to its own result
\* with the same log it changes nothing, and applied to a resolved send
\* (waiting false, pending empty) with whatever log it changes nothing.
C11_LogUpdateIdempotent ==
  [][lastOp' = "effect" =>
       /\ ResponseDetection(messages', isWaitingForResponse', pendingMessage',
                            messageCountWhenSentRef')
            = [isWaiting |-> isWaitingForResponse', pending |-> pendingMessage',
               count |-> messageCountWhenSentRef']
       /\ (~isWaitingForResponse /\ ~Truthy(pendingMessage))
            => UNCHANGED reconVars]_vars

\* the handler has run on a send that a response had resolved before
C11_Witness ==
  /\ lastOp = "effect"
  /\ ~effectDue
  /\ ~isWaitingForResponse
  /\ pendingMessage = Null
  /\ clearCount = 1
  /\ Len(issued) = 2
  /\ Last(messages).agent # "user"
  /\ Last(messages).req = 2

\* C12: the success of the chat POST by itself changes neither waiting nor
\* pending nor the snapshot (nor the log shown nor the timer); a wait ends
\* only by a log update, the watchdog or the failure callback.
C12_SuccessChangesNothing ==
  [][/\ lastOp' = "onSuccess" =>
          UNCHANGED <<reconVars, inputMessage, messages, timerVars, issued>>
     /\ (isWaitingForResponse /\ ~isWaitingForResponse') =>
          lastOp' \in {"effect", "timeout", "onError"}]_vars

\* the POST has succeeded, the reply is in the backend's log, and the page
\* still waits with its bubble shown
C12_Witness ==
  /\ lastOp = "onSuccess"
  /\ isWaitingForResponse
  /\ pendingMessage = sentText
  /\ Len(serverLog) > Len(messages)
  /\ Last(serverLog).req = Len(issued)

\* C13: no send is retried: a request is issued only by an accepted send,
\* one request for each, with the text of that send; the failure callback,
\* the watchdog and a log update issue none.
C13_NoRetry ==
  [][/\ Len(mutations') = Len(issued')
     /\ (issued' # issued \/ Len(mutations') # Len(mutations)) =>
          /\ lastOp' = "sendAccepted"
          /\ issued' = Append(issued, Trim(inputMessage))
          /\ Len(mutations') = Len(mutations) + 1
     /\ lastOp' \in {"onError", "timeout", "effect"} =>
          (issued' = issued /\ Len(mutations') = Len(mutations))]_vars

\* the POST of the only send has failed, the rollback is done, and no
\* further request exists
C13_Witness ==
  /\ lastOp = "effect"
  /\ ~effectDue
  /\ Len(issued) = 1
  /\ mutations = <<[stage |-> "sent", http |-> "settled"]>>
  /\ ~isWaitingForResponse
  /\ pendingMessage = Null
  /\ clearCount = 1

\* the entries the backend appended for the last accepted send
OwnEntries(log) == {i \in 1..Len(log) : log[i].req = Len(issued)}

\* C18: whenever a log update ends the wait of a send, the log holds, at or
\* after that send's snapshot, a user entry with that send's text followed
\* by a non-user entry: the response to an earlier send never ends the wait
\* of a later one.
C18_ResponseIsOwn ==
  [][(lastOp' = "effect" /\ isWaitingForResponse /\ ~isWaitingForResponse') =>
       \E i \in 1..Len(messages) : \E j \in 1..Len(messages) :
         /\ i > messageCountWhenSentRef
         /\ i < j
         /\ messages[i].agent = "user"
         /\ messages[i].content = sentText
         /\ messages[j].agent # "user"]_vars

\* C19: after the log-update handler has run, pending never still holds the
\* text of a send whose user entry and reply are both in the log, also when
\* the watchdog fired before the reply arrived.
C19_BubbleRemoved ==
  (lastOp = "effect" /\ ~effectDue /\ Truthy(pendingMessage)) =>
    ~(\E i \in OwnEntries(messages) : \E j \in OwnEntries(messages) :
        /\ i < j
        /\ messages[i].agent = "user"
        /\ messages[i].content = pendingMessage
        /\ messages[j].agent # "user")

\* C20: a watchdog timer runs exactly while waiting is true: it is started
\* from zero when waiting becomes true, is gone once waiting is false, fires
\* only after its own 60 seconds, and none is left over when a send is made.
C20_TimerWhileWaiting ==
  [][/\ ~effectDue' => (elapsed' >= 0 <=> isWaitingForResponse')
     /\ (lastOp' = "effect" /\ isWaitingForResponse /\ ~watchdogDep) => elapsed' = 0
     /\ lastOp' = "sendAccepted" => elapsed = -1
     /\ lastOp' = "timeout" => (elapsed >= WatchdogMs /\ isWaitingForResponse)
     /\ lastOp' = "remount" => (elapsed' = -1 /\ ~isWaitingForResponse')
     /\ elapsed' >= elapsed \/ elapsed' <= 0]_vars

\* the timer of the second send starts from zero, the first wait having
\* ended when the page was left
C20_Witness ==
  /\ lastOp = "effect"
  /\ Len(issued) = 2
  /\ isWaitingForResponse
  /\ elapsed = 0
  /\ mutations[1].http = "detached"
  /\ mutations[2] = [stage |-> "sent", http |-> "pending"]

\* C14: for every combination of the two completion flags the paper page is
\* locked, with its state query disabled, exactly when the sidebar shows the
\* paper process as locked: when not both flags are set.
C14_PaperLockedAsSidebar ==
  /\ isLocked <=> PaperProcessLocked(projectStatus)
  /\ processStateEnabled <=> ~PaperProcessLocked(projectStatus)
  /\ isLocked <=> ~(projectStatus.research_definition_complete
                    /\ projectStatus.experiment_design_complete)

\* C15: formatTimestamp never throws, and for a malformed timestamp its
\* result is the empty string.
C15_MalformedGivesEmpty ==
  (rendered # NoRender /\ ~DateParse(rendered.timestamp).valid) =>
    rendered.label = <<>>

\* C16: once loaded, the item stored under the sidebar key is the current
\* collapsed state, whatever toggles preceded; a remount leaves the item and
\* the load restores the state from it; with no item the sidebar is expanded.
C16_SidebarPreference ==
  [][/\ isHydrated' =>
          LET saved == localStorage'[SIDEBAR_COLLAPSED_KEY]
          IN \/ saved = NoItem /\ ~isCollapsed'
             \/ saved = "true" /\ isCollapsed'
             \/ saved = "false" /\ ~isCollapsed'
     /\ isHydrated' # isHydrated => UNCHANGED localStorage
     /\ (isHydrated /\ isHydrated' /\ isCollapsed' # isCollapsed) =>
          localStorage'[SIDEBAR_COLLAPSED_KEY] # localStorage[SIDEBAR_COLLAPSED_KEY]]_vars

\* after a remount the load has restored the collapsed sidebar
C16_Witness ==
  /\ lastOp = "mountEffect"
  /\ isHydrated
  /\ isCollapsed
  /\ localStorage[SIDEBAR_COLLAPSED_KEY] = "true"

\* C17: getSelectedModel answers the model last chosen in the model selector,
\* the first available model when none was chosen, and each chat POST carries
\* the model getSelectedModel answers when the send is made.
C17_SendCarriesSelectedModel ==
  [][/\ getSelectedModel' = selectedModel'
     /\ localStorage'[STORAGE_KEY] = NoItem => getSelectedModel' = AVAILABLE_MODELS[1]
     /\ Len(sentModels') = Len(issued')
     /\ lastOp' = "sendAccepted" => sentModels' = Append(sentModels, selectedModel)]_vars

\* a send carries a model chosen in the selector, not the first one
C17_Witness ==
  /\ lastOp = "sendAccepted"
  /\ selectedModel = AVAILABLE_MODELS[3]
  /\ sentModels = <<AVAILABLE_MODELS[3]>>
  /\ ~isOpen

\* C21: the failure of the POST of an earlier send, whose wait the watchdog
\* had ended, changes neither waiting nor pending nor the snapshot of a
\* later send; the failure callback that runs is that of the latest send.
C21_StaleFailureIgnored ==
  [][/\ lastOp' = "staleFailure" =>
          UNCHANGED <<reconVars, inputMessage, messages, timerVars, effectDue>>
     /\ lastOp' = "onError" =>
          /\ mutations[Len(mutations)].http = "pending"
          /\ mutations'[Len(mutations)].http = "settled"]_vars

\* the POST of the first send has failed while the second send waits with
\* its bubble shown
C21_Witness ==
  /\ lastOp = "staleFailure"
  /\ Len(issued) = 2
  /\ mutations[1].http = "settled"
  /\ mutations[2].http = "pending"
  /\ isWaitingForResponse
  /\ pendingMessage = sentText
  /\ messageCountWhenSentRef >= 0

\* C23: a log update with an empty log (the messages were reset while a send
\* waits) leaves waiting, pending and the snapshot; that wait ends only by
\* the watchdog, the failure callback or a log longer than the snapshot.
C23_EmptyLogChangesNothing ==
  [][/\ (lastOp' = "effect" /\ messages = <<>>) => UNCHANGED reconVars
     /\ (isWaitingForResponse /\ ~isWaitingForResponse') =>
          \/ lastOp' \in {"timeout", "onError"}
          \/ lastOp' = "effect" /\ Len(messages) > messageCountWhenSentRef]_vars

\* the effects have run on the emptied log and the send still waits with its
\* bubble and its snapshot
C23_Witness ==
  /\ lastOp = "effect"
  /\ ~effectDue
  /\ messages = <<>>
  /\ isWaitingForResponse
  /\ pendingMessage = sentText
  /\ messageCountWhenSentRef >= 1

\* C22: the research page and the paper-writing page, fed the same sends, log
\* updates, failure callbacks and timeouts, have the same waiting, pending
\* and snapshot after every step.
C22_PagesAgree ==
  research = [isWaiting |-> isWaitingForResponse, pending |-> pendingMessage,
              count |-> messageCountWhenSentRef]

\* both pages wait for the second send, the log ending with its echo
C22_Witness ==
  /\ lastOp = "twinLog"
  /\ Len(issued) = 2
  /\ research.isWaiting
  /\ research.pending = Null
  /\ research.count = 2
  /\ Len(messages) = 3
  /\ messages[3].agent = "user"

\* ------------------------------------------ ResearchPage: artifact updates
\* process states loaded in one run
ArtifactMaxLoads == 3

\* processState?.artifact || '' as the server can deliver it
ArtifactTexts == {"", "A", "B"}

\* processState?.current_phase || 'research_definition'
Phases == {"research_definition", "experiment_design"}

\* the state the artifact code leaves
artifactFrame == <<chatVars, shellVars, twinVars, sseVars, navVars, litVars>>

\* the effect's second test: a non-empty artifact other than the remembered one
ArtifactChanged == artifact # "" /\ artifact # previousArtifactRef

\* useEffect(..., [artifact, currentPhase]): detect artifact updates
ArtifactEffect ==
  /\ artifactEffectDue
  /\ artifactEffectDue' = FALSE
  /\ IF previousArtifactRef = NoArtifact
     THEN /\ previousArtifactRef' = artifact
          /\ UNCHANGED <<updateIdRef, artifactUpdates>>
     ELSE IF ArtifactChanged
     THEN /\ updateIdRef' = updateIdRef + 1
          /\ artifactUpdates' = Append(artifactUpdates,
                                       [id |-> updateIdRef + 1, phase |-> currentPhase])
          /\ previousArtifactRef' = artifact
     ELSE UNCHANGED <<previousArtifactRef, updateIdRef, artifactUpdates>>
  /\ lastOp' = "artifactEffect"
  /\ UNCHANGED <<artifact, artifactLoads, artifactPrev, currentPhase>>
  /\ UNCHANGED artifactFrame

\* the process-state query delivers a state; the render after it schedules
\* the effect when one of its dependencies differs
ResearchStateFetched(a, phase) ==
  /\ ~artifactEffectDue
  /\ artifactLoads < ArtifactMaxLoads
  /\ artifact' = a
  /\ currentPhase' = phase
  /\ artifactPrev' = artifact
  /\ artifactLoads' = artifactLoads + 1
  /\ artifactEffectDue' = (a # artifact \/ phase # currentPhase)
  /\ lastOp' = "other"
  /\ UNCHANGED <<previousArtifactRef, updateIdRef, artifactUpdates>>
  /\ UNCHANGED artifactFrame

\* resetProcess.onSuccess: the notifications are dropped and the remembered
\* artifact forgotten; no dependency of the effect changes
ResearchResetSucceeds ==
  /\ ~artifactEffectDue
  /\ artifactLoads > 0
  /\ artifactUpdates' = <<>>
  /\ previousArtifactRef' = NoArtifact
  /\ lastOp' = "other"
  /\ UNCHANGED <<artifact, updateIdRef, artifactEffectDue, artifactLoads, artifactPrev,
                 currentPhase>>
  /\ UNCHANGED artifactFrame

ArtifactNext ==
  \/ ArtifactEffect
  \/ \E a \in ArtifactTexts : \E phase \in Phases : ResearchStateFetched(a, phase)
  \/ ResearchResetSucceeds

ArtifactSpec == Init /\ [][ArtifactNext]_vars

\* the effect step appended one notification
NotificationAppended ==
  /\ Len(artifactUpdates') = Len(artifactUpdates) + 1
  /\ SubSeq(artifactUpdates', 1, Len(artifactUpdates)) = artifactUpdates

\* C24: notifications correspond one-to-one to changes of the artifact after
\* its initial load: a run of the artifact effect appends a notification, with
\* an id larger than every id before, exactly when the artifact just changed to
\* a different non-empty text and it was not the first value loaded from the
\* server; otherwise it leaves the notifications as they are.
C24_NotificationPerChange ==
  [][lastOp' = "artifactEffect" =>
       /\ NotificationAppended \/ artifactUpdates' = artifactUpdates
       /\ NotificationAppended <=>
            (artifactLoads >= 2 /\ artifact # "" /\ artifact # artifactPrev)
       /\ NotificationAppended =>
            \A i \in 1..Len(artifactUpdates) :
              artifactUpdates[i].id < artifactUpdates'[Len(artifactUpdates')].id]_vars

\* ------------------------------------------------- the SSE proxy route
\* chunks a backend stream delivers in one run
SseMaxChunks == 3

Chunks == {"c1", "c2"}
ChunkSeqs == UNION {[1..n -> Chunks] : n \in 0..SseMaxChunks}

\* statuses the backend answers with; a 204 carries no body
BackendStatuses == {200, 204, 404, 500, 503}

\* how the backend stream finishes: done, or a failing read
Endings == {"end", "error"}

\* the state the route leaves
sseFrame == <<chatVars, shellVars, twinVars, artifactVars, navVars, litVars>>

\* response.ok
ResponseOk(status) == status >= 200 /\ status <= 299

JsonError(status, error) == [kind |-> "json", status |-> status, error |-> error]

\* GET: the Response returned for what fetch gave; connected FALSE: fetch threw
RouteResponseAlways500(connected, status, body) ==
  IF ~connected THEN JsonError(500, "Connection failed")
  ELSE IF ~ResponseOk(status) THEN JsonError(500, "Backend error")
  ELSE IF ~body THEN JsonError(500, "No response body")
  ELSE [kind |-> "stream", status |-> 200, error |-> ""]

RouteResponse(connected, status, body) ==
  IF ~connected THEN JsonError(500, "Connection failed")
  ELSE IF ~ResponseOk(status) THEN JsonError(status, "Backend error")
  ELSE IF ~body THEN JsonError(500, "No response body")
  ELSE [kind |-> "stream", status |-> 200, error |-> ""]

\* controller.enqueue(value) on a readable stream
EnqueueFront(queue, value) == <<value>> \o queue

Enqueue(queue, value) == Append(queue, value)

\* GET: fetch(backendUrl) throws
SseGetFails ==
  /\ ssePc = "idle"
  /\ sseResponse' = RouteResponse(FALSE, 0, FALSE)
  /\ ssePc' = "returned"
  /\ lastOp' = "sse"
  /\ UNCHANGED <<sseBackend, sseRead, sseClient, sseClientState, sseCancelledAt>>
  /\ UNCHANGED sseFrame

\* GET: fetch resolves; a stream is built only for an OK response with a body,
\* and its start() takes the reader and issues the first read
SseGet(status, body, chunks, ending) ==
  /\ ssePc = "idle"
  /\ status = 204 => ~body
  /\ IF ResponseOk(status) /\ body
     THEN ending \in Endings
     ELSE chunks = <<>> /\ ending = "none"
  /\ sseBackend' = [status |-> status, body |-> body, chunks |-> chunks,
                    ending |-> ending, over |-> FALSE]
  /\ sseResponse' = RouteResponse(TRUE, status, body)
  /\ IF sseResponse'.kind = "stream"
     THEN ssePc' = "reading" /\ sseClientState' = "readable"
     ELSE ssePc' = "returned" /\ UNCHANGED sseClientState
  /\ lastOp' = "sse"
  /\ UNCHANGED <<sseRead, sseClient, sseCancelledAt>>
  /\ UNCHANGED sseFrame

\* the pending reader.read() resolves with a chunk, which is enqueued; on a
\* stream that is no longer readable enqueue throws, the catch block's
\* controller.error does nothing, and the loop is left
SseReadChunk ==
  /\ ssePc = "reading"
  /\ sseBackend.chunks # <<>>
  /\ sseBackend' = [sseBackend EXCEPT !.chunks = Tail(@)]
  /\ sseRead' = Append(sseRead, Head(sseBackend.chunks))
  /\ IF sseClientState = "readable"
     THEN /\ sseClient' = Enqueue(sseClient, Head(sseBackend.chunks))
          /\ ssePc' = "reading"
     ELSE /\ UNCHANGED sseClient
          /\ ssePc' = "caught"
  /\ lastOp' = "sse"
  /\ UNCHANGED <<sseClientState, sseResponse, sseCancelledAt>>
  /\ UNCHANGED sseFrame

\* the pending reader.read() resolves with done: controller.close(), which
\* throws on a stream that is no longer readable
SseReadDone ==
  /\ ssePc = "reading"
  /\ sseBackend.chunks = <<>>
  /\ sseBackend.ending = "end"
  /\ sseBackend' = [sseBackend EXCEPT !.over = TRUE]
  /\ IF sseClientState = "readable"
     THEN sseClientState' = "closed" /\ ssePc' = "ended"
     ELSE UNCHANGED sseClientState /\ ssePc' = "caught"
  /\ lastOp' = "sse"
  /\ UNCHANGED <<sseRead, sseClient, sseResponse, sseCancelledAt>>
  /\ UNCHANGED sseFrame

\* the pending reader.read() rejects: controller.error(error), which does
\* nothing on a stream that is no longer readable
SseReadError ==
  /\ ssePc = "reading"
  /\ sseBackend.chunks = <<>>
  /\ sseBackend.ending = "error"
  /\ sseBackend' = [sseBackend EXCEPT !.over = TRUE]
  /\ sseClientState' = IF sseClientState = "readable" THEN "errored" ELSE sseClientState
  /\ ssePc' = "caught"
  /\ lastOp' = "sse"
  /\ UNCHANGED <<sseRead, sseClient, sseResponse, sseCancelledAt>>
  /\ UNCHANGED sseFrame

\* the client cancels the stream it was handed: cancel() logs
SseClientCancel ==
  /\ sseResponse.kind = "stream"
  /\ sseClientState = "readable"
  /\ sseClientState' = "cancelled"
  /\ sseCancelledAt' = Len(sseRead)
  /\ lastOp' = "sse"
  /\ UNCHANGED <<ssePc, sseBackend, sseRead, sseClient, sseResponse>>
  /\ UNCHANGED sseFrame

SseNext ==
  \/ SseGetFails
  \/ \E status \in BackendStatuses : \E body \in BOOLEAN :
       \E chunks \in ChunkSeqs : \E ending \in Endings \cup {"none"} :
         SseGet(status, body, chunks, ending)
  \/ SseReadChunk
  \/ SseReadDone
  \/ SseReadError
  \/ SseClientCancel

SseSpec == Init /\ [][SseNext]_vars

C27_CancelStopsReading ==
  sseCancelledAt >= 0 =>
    /\ Len(sseRead) = sseCancelledAt
    /\ Len(sseClient) <= sseCancelledAt

\* C28: a click on a locked process of the sidebar never navigates; research
\* and literature organization are locked for no combination of the completion
\* flags; literature search is locked exactly when not both flags are true, in
\* the sidebar and on its page alike, where the state query is then disabled.
C28_LockedNeverNavigates ==
  [][/\ (lastOp' \in {"navigate", "lockedClick"}
           /\ ProcessLocked(clicked', projectStatus)) =>
          (lastOp' = "lockedClick" /\ pathname' = pathname)
     /\ lastOp' = "navigate" => pathname' = clicked'
     /\ \A rd \in BOOLEAN : \A ed \in BOOLEAN :
          LET project == [research_definition_complete |-> rd,
                          experiment_design_complete |-> ed]
          IN /\ ~ProcessLocked("research", project)
             /\ ~ProcessLocked("literature-org", project)
             /\ ProcessLocked("literature-search", project) <=> ~(rd /\ ed)
     /\ LiteratureSearchIsLocked <=> ProcessLocked("literature-search", projectStatus)
     /\ LiteratureSearchIsLocked <=>
          ~(projectStatus.research_definition_complete
              /\ projectStatus.experiment_design_complete)
     /\ searchStateEnabled <=> ~LiteratureSearchIsLocked]_vars

\* with the research definition alone complete, literature search was
\* clicked from the research page and the router stayed there
C28_Witness ==
  /\ lastOp = "lockedClick"
  /\ clicked = "literature-search"
  /\ pathname = "research"
  /\ projectStatus.research_definition_complete
  /\ ~projectStatus.experiment_design_complete

\* ------------------------------------- LiteratureSearchPage: add to organization
\* add requests issued in one run
LitMaxAdds == 3

\* searchedPapers: the ids of the result cards
Papers == {"p1", "p2"}

\* the state the literature-search page leaves
litFrame == <<chatVars, shellVars, twinVars, artifactVars, sseVars, navVars>>

\* SearchResultCard: disabled={isAdding || isAdded}
AddDisabled(paperId) == addingPaperId = paperId \/ paperId \in addedPaperIds

\* handleAddToOrganization, from the enabled button of a result card
handleAddToOrganization(paperId) ==
  /\ ~LiteratureSearchIsLocked
  /\ ~AddDisabled(paperId)
  /\ Len(addRequests) < LitMaxAdds
  /\ addingPaperId' = paperId
  /\ addRequests' = Append(addRequests, [paper |-> paperId, status |-> "pending"])
  /\ lastOp' = "add"
  /\ UNCHANGED addedPaperIds
  /\ UNCHANGED litFrame

\* addToOrganization.onSuccess, run for every request that succeeds
AddSucceeds(i) ==
  /\ i \in DOMAIN addRequests
  /\ addRequests[i].status = "pending"
  /\ addRequests' = [addRequests EXCEPT ![i].status = "ok"]
  /\ addedPaperIds' = addedPaperIds \cup {addRequests[i].paper}
  /\ addingPaperId' = NoPaper
  /\ lastOp' = "added"
  /\ UNCHANGED litFrame

\* addToOrganization.onError, run for every request that fails
AddFails(i) ==
  /\ i \in DOMAIN addRequests
  /\ addRequests[i].status = "pending"
  /\ addRequests' = [addRequests EXCEPT ![i].status = "failed"]
  /\ addingPaperId' = NoPaper
  /\ lastOp' = "addFailed"
  /\ UNCHANGED addedPaperIds
  /\ UNCHANGED litFrame

LitNext ==
  \/ \E paperId \in Papers : handleAddToOrganization(paperId)
  \/ \E i \in 1..LitMaxAdds : AddSucceeds(i)
  \/ \E i \in 1..LitMaxAdds : AddFails(i)

LitSpec == Init /\ [][LitNext]_vars

\* C29: a paper whose add request is in flight or has succeeded is not
\* submitted again: of two requests for the same paper id, the earlier one has
\* failed.
C29_OneRequestPerPaper ==
  \A i \in DOMAIN addRequests : \A j \in DOMAIN addRequests :
    (i < j /\ addRequests[i].paper = addRequests[j].paper) =>
      addRequests[i].status = "failed"

====
